---- MODULE Spec2Model ----
(***************************************************************************)
(* Model of resources/scripts/insert_change_log.py: the changelog          *)
(* extractor get_change_log_for_version, the placeholder substituter       *)
(* insert_change_log and the __main__ block that composes them.            *)
(*                                                                         *)
(* Text is a sequence of one-character strings.  A file is the sequence of *)
(* characters stored on disk.  Both files are opened in text mode with the *)
(* default newline handling, so reading delivers "\r\n" and "\r" as "\n"   *)
(* (universal newlines) and, on POSIX, writing stores "\n" as it is.       *)
(***************************************************************************)
EXTENDS Integers, Sequences, FiniteSets, TLC

VARIABLES
    argv,                           \* sys.argv of each run
    changelog_file,                 \* characters of ../../CHANGELOG.md
    changelog_exists,               \* whether ../../CHANGELOG.md exists
    release_file,                   \* characters of ../../release_description.txt
    release_exists,                 \* whether ../../release_description.txt exists
    pc,                             \* position of each run in the script
    version,                        \* the label being searched for
    change_log,                     \* local change_log / the argument of insert_change_log
    finished_reading_change_log,    \* loop flag of get_change_log_for_version
    change_log_pos,                 \* read offset of change_log_file
    release_description,            \* local of insert_change_log
    release_pos,                    \* file position of release_desc_file
    raised,                         \* the uncaught exception that ended a run, or "none"
    raw_lines,                      \* history: the lines of the changelog as stored
    lines,                          \* history: the same lines as text, each line end "\n"
    line_ends,                      \* history: offset in changelog_file after each line
    orig_release,                   \* history: release_file when the program started
    run_start,                      \* history: release_file when the current call started
    release_opened,                 \* history: some run has opened release_description.txt
    last_written,                   \* history: the text of the most recent write
    last_write_alone,               \* history: the other run had finished at that write
    call_texts                      \* history: the arguments of the calls of insert_change_log so far

procvars == <<argv, pc, version, change_log, finished_reading_change_log, change_log_pos,
              release_description, release_pos, raised, call_texts>>
filevars == <<changelog_file, changelog_exists, release_file, release_exists>>
histvars == <<raw_lines, lines, line_ends, orig_release, run_start, release_opened, last_written,
              last_write_alone>>
vars == <<procvars, filevars, histvars>>

(***************************************************************************)
(* Bounds                                                                  *)
(***************************************************************************)
MaxLines == 4          \* lines of a changelog
MaxFrags == 3          \* fragments a release description is made of
MaxRaceFrags == 2      \* fragments of the release description two runs share
MaxCalls == 2          \* calls of insert_change_log on the same document
MaxMainLines == 2      \* lines of the changelog of a whole program run

Procs == {1, 2}
Other(p) == 3 - p

(***************************************************************************)
(* Characters and literals                                                 *)
(***************************************************************************)
LF == "\n"
CR == "\r"
NUL == "\\0"           \* the zero byte a file is padded with when it is extended

HEADING == <<"#", "#", " ", "V", "e", "r", "s", "i", "o", "n">>
PLACEHOLDER == <<"_", "_", "C", "H", "A", "N", "G", "E", "L", "O", "G", "_", "_">>

BoundedSeq(S, n) == UNION {[1..k -> S] : k \in 0..n}

RECURSIVE Flatten(_)
Flatten(ss) == IF ss = <<>> THEN <<>> ELSE Head(ss) \o Flatten(Tail(ss))

Drop(s, n) == SubSeq(s, n + 1, Len(s))

(***************************************************************************)
(* Python string operations                                                *)
(***************************************************************************)
StartsWithExactly(s, prefix) == s = prefix

\* str.startswith
StartsWith(s, prefix) ==
    /\ Len(prefix) <= Len(s)
    /\ SubSeq(s, 1, Len(prefix)) = prefix

InAtStart(sub, s) == Len(sub) <= Len(s) /\ SubSeq(s, 1, Len(sub)) = sub

\* the operator `in` on two strings
In(sub, s) ==
    \E k \in 0..(Len(s) - Len(sub)) : SubSeq(s, k + 1, k + Len(sub)) = sub

ReplaceFirst(s, old, new) ==
    IF In(old, s)
    THEN LET k == CHOOSE k \in 0..(Len(s) - Len(old)) :
                     /\ SubSeq(s, k + 1, k + Len(old)) = old
                     /\ \A m \in 0..(k - 1) : SubSeq(s, m + 1, m + Len(old)) # old
         IN SubSeq(s, 1, k) \o new \o Drop(s, k + Len(old))
    ELSE s

RECURSIVE ReplaceScan(_, _, _)
ReplaceScan(s, old, new) ==
    IF Len(s) < Len(old) THEN s
    ELSE IF StartsWith(s, old) THEN new \o ReplaceScan(Drop(s, Len(old)), old, new)
    ELSE <<Head(s)>> \o ReplaceScan(Tail(s), old, new)

\* str.replace for a non-empty old: every occurrence met scanning left to right
Replace(s, old, new) == ReplaceScan(s, old, new)

(***************************************************************************)
(* Text-mode file operations                                               *)
(***************************************************************************)
\* newline translation of a text-mode read: "\r\n" and "\r" arrive as "\n"
RECURSIVE Universal(_)
Universal(s) ==
    IF s = <<>> THEN <<>>
    ELSE IF Head(s) = CR
         THEN IF Len(s) > 1 /\ s[2] = LF
              THEN <<LF>> \o Universal(Drop(s, 2))
              ELSE <<LF>> \o Universal(Tail(s))
         ELSE <<Head(s)>> \o Universal(Tail(s))

ReadRaw(f, pos) == Drop(f, pos)

\* file.read(): everything from the current position, newlines translated
Read(f, pos) == Universal(Drop(f, pos))

\* file.readline(): the text up to and including the next line end, and the
\* position after it; the empty text at end of file
readline(f, pos) ==
    IF pos >= Len(f) THEN [line |-> <<>>, pos |-> pos]
    ELSE LET eols == {k \in (pos + 1)..Len(f) : f[k] \in {LF, CR}}
         IN IF eols = {}
            THEN [line |-> Drop(f, pos), pos |-> Len(f)]
            ELSE LET k == CHOOSE k \in eols : \A m \in eols : k <= m
                     crlf == f[k] = CR /\ k < Len(f) /\ f[k + 1] = LF
                 IN [line |-> SubSeq(f, pos + 1, k - 1) \o <<LF>>,
                     pos |-> IF crlf THEN k + 1 ELSE k]

\* file.write(text) at position pos: overwrites, and extends the file
WriteAt(f, pos, text) ==
    SubSeq(f, 1, pos) \o text \o Drop(f, pos + Len(text))

NoTruncate(f, size) == f

\* file.truncate() at position size: cuts the file, or pads it with zero bytes
TruncateTo(f, size) ==
    IF size <= Len(f) THEN SubSeq(f, 1, size)
    ELSE f \o [k \in 1..(size - Len(f)) |-> NUL]

(***************************************************************************)
(* Inputs                                                                  *)
(***************************************************************************)
V20 == HEADING \o <<" ", "2", ".", "0">>            \* "## Version 2.0"
V10 == HEADING \o <<" ", "1", ".", "0">>            \* "## Version 1.0"
FIX == <<"f", "i", "x", " ", "1", ".", "0">>        \* "fix 1.0"
QUOTED == <<">">> \o HEADING                        \* ">## Version"
PLAIN == <<"x">>

LineBodies == {V20, V10, FIX, QUOTED, PLAIN}
Eols == {<<LF>>, <<CR, LF>>, <<CR>>}
Labels == {<<"2", ".", "0">>, <<"1", ".", "0">>, <<"9", ".", "9">>, <<>>}
Program == <<"i", "n", "s", "e", "r", "t">>         \* sys.argv[0]

\* the characters of a changelog file whose lines have these bodies, each ended
\* by eol, the last one only when final
RawLines(bodies, eol, final) ==
    [k \in 1..Len(bodies) |->
        IF k = Len(bodies) /\ ~final THEN bodies[k] ELSE bodies[k] \o eol]
\* the same lines as text
TextLines(bodies, final) ==
    [k \in 1..Len(bodies) |->
        IF k = Len(bodies) /\ ~final THEN bodies[k] ELSE bodies[k] \o <<LF>>]
Ends(raw) == [k \in 1..Len(raw) |-> Len(Flatten(SubSeq(raw, 1, k)))]

NoText == [p \in Procs |-> <<>>]

InitProcs ==
    /\ finished_reading_change_log = [p \in Procs |-> FALSE]
    /\ change_log_pos = [p \in Procs |-> 0]
    /\ release_description = NoText
    /\ release_pos = [p \in Procs |-> 0]
    /\ raised = [p \in Procs |-> "none"]
    /\ call_texts = [p \in Procs |-> <<>>]

InitHistory ==
    /\ orig_release = release_file
    /\ run_start = release_file
    /\ release_opened = FALSE
    /\ last_written = <<>>
    /\ last_write_alone = FALSE

InitChangelog(bodies, eol, final) ==
    /\ changelog_file = Flatten(RawLines(bodies, eol, final))
    /\ raw_lines = RawLines(bodies, eol, final)
    /\ lines = TextLines(bodies, final)
    /\ line_ends = Ends(RawLines(bodies, eol, final))

\* a last line without its line end is a line only when it has characters
WellFormed(bodies, final) == final \/ (bodies # <<>> /\ bodies[Len(bodies)] # <<>>)

(***************************************************************************)
(* get_change_log_for_version                                              *)
(***************************************************************************)
Raise(p, what) ==
    /\ raised' = [raised EXCEPT ![p] = what]
    /\ pc' = [pc EXCEPT ![p] = "raised"]

OpenChangeLogOrSkip(p) ==
    /\ pc[p] = "get"
    /\ change_log' = [change_log EXCEPT ![p] = <<>>]
    /\ finished_reading_change_log' = [finished_reading_change_log EXCEPT ![p] = FALSE]
    /\ change_log_pos' = [change_log_pos EXCEPT ![p] = 0]
    /\ pc' = [pc EXCEPT ![p] = IF changelog_exists THEN "outer" ELSE "return"]
    /\ raised' = [raised EXCEPT ![p] =
            IF changelog_exists THEN @
            ELSE "FileNotFoundError in get_change_log_for_version"]
    /\ UNCHANGED <<argv, version, release_description, release_pos, call_texts>>
    /\ UNCHANGED <<filevars, histvars>>

\* lines 6-8: the locals, and open("../../CHANGELOG.md", mode="r")
OpenChangeLog(p) ==
    /\ pc[p] = "get"
    /\ change_log' = [change_log EXCEPT ![p] = <<>>]
    /\ finished_reading_change_log' = [finished_reading_change_log EXCEPT ![p] = FALSE]
    /\ IF changelog_exists
       THEN /\ change_log_pos' = [change_log_pos EXCEPT ![p] = 0]
            /\ pc' = [pc EXCEPT ![p] = "outer"]
            /\ UNCHANGED raised
       ELSE /\ Raise(p, "FileNotFoundError in get_change_log_for_version")
            /\ UNCHANGED change_log_pos
    /\ UNCHANGED <<argv, version, release_description, release_pos, call_texts>>
    /\ UNCHANGED <<filevars, histvars>>

OuterReadKeepsMatch(p) ==
    /\ pc[p] = "outer"
    /\ ~finished_reading_change_log[p]
    /\ LET r == readline(changelog_file, change_log_pos[p])
       IN /\ change_log_pos' = [change_log_pos EXCEPT ![p] = r.pos]
          /\ pc' = [pc EXCEPT ![p] =
                       IF r.line = <<>> THEN "return"
                       ELSE IF In(version[p], r.line) THEN "inner"
                       ELSE "outer"]
          /\ change_log' = [change_log EXCEPT ![p] =
                       IF r.line # <<>> /\ In(version[p], r.line) THEN @ \o r.line ELSE @]
    /\ UNCHANGED <<argv, version, finished_reading_change_log,
                   release_description, release_pos, raised, call_texts>>
    /\ UNCHANGED <<filevars, histvars>>

\* lines 9-13: one turn of the outer loop while the flag is not set
OuterRead(p) ==
    /\ pc[p] = "outer"
    /\ ~finished_reading_change_log[p]
    /\ LET r == readline(changelog_file, change_log_pos[p])
       IN /\ change_log_pos' = [change_log_pos EXCEPT ![p] = r.pos]
          /\ pc' = [pc EXCEPT ![p] =
                       IF r.line = <<>> THEN "return"
                       ELSE IF In(version[p], r.line) THEN "inner"
                       ELSE "outer"]
    /\ UNCHANGED <<argv, version, change_log, finished_reading_change_log,
                   release_description, release_pos, raised, call_texts>>
    /\ UNCHANGED <<filevars, histvars>>

\* line 9: the flag is set, the outer loop ends
OuterExit(p) ==
    /\ pc[p] = "outer"
    /\ finished_reading_change_log[p]
    /\ pc' = [pc EXCEPT ![p] = "return"]
    /\ UNCHANGED <<argv, version, change_log, finished_reading_change_log, change_log_pos,
                   release_description, release_pos, raised, call_texts>>
    /\ UNCHANGED <<filevars, histvars>>

InnerReadNoFlag(p) ==
    /\ pc[p] = "inner"
    /\ LET r == readline(changelog_file, change_log_pos[p])
       IN /\ change_log_pos' = [change_log_pos EXCEPT ![p] = r.pos]
          /\ IF r.line = <<>> \/ StartsWith(r.line, HEADING)
             THEN /\ finished_reading_change_log' =
                        [finished_reading_change_log EXCEPT ![p] = (r.line = <<>>)]
                  /\ pc' = [pc EXCEPT ![p] = "outer"]
                  /\ UNCHANGED change_log
             ELSE /\ change_log' = [change_log EXCEPT ![p] = @ \o r.line]
                  /\ UNCHANGED <<finished_reading_change_log, pc>>
    /\ UNCHANGED <<argv, version, release_description, release_pos, raised, call_texts>>
    /\ UNCHANGED <<filevars, histvars>>

\* lines 14-22: one turn of the inner loop
InnerRead(p) ==
    /\ pc[p] = "inner"
    /\ LET r == readline(changelog_file, change_log_pos[p])
       IN /\ change_log_pos' = [change_log_pos EXCEPT ![p] = r.pos]
          /\ IF r.line = <<>> \/ StartsWith(r.line, HEADING)
             THEN /\ finished_reading_change_log' =
                        [finished_reading_change_log EXCEPT ![p] = TRUE]
                  /\ pc' = [pc EXCEPT ![p] = "outer"]
                  /\ UNCHANGED change_log
             ELSE /\ change_log' = [change_log EXCEPT ![p] = @ \o r.line]
                  /\ UNCHANGED <<finished_reading_change_log, pc>>
    /\ UNCHANGED <<argv, version, release_description, release_pos, raised, call_texts>>
    /\ UNCHANGED <<filevars, histvars>>

\* line 23, and line 35 receiving the result: the file is closed, the block returned
Return(p) ==
    /\ pc[p] = "return"
    /\ pc' = [pc EXCEPT ![p] = "insert"]
    /\ UNCHANGED <<argv, version, change_log, finished_reading_change_log, change_log_pos,
                   release_description, release_pos, raised, call_texts>>
    /\ UNCHANGED <<filevars, histvars>>

get_change_log_for_version(p) ==
    \/ OpenChangeLog(p)
    \/ OuterRead(p)
    \/ OuterExit(p)
    \/ InnerRead(p)
    \/ Return(p)

(***************************************************************************)
(* The extractor on its own: every changelog and label within the bounds   *)
(***************************************************************************)
InitExtract ==
    /\ \E bodies \in BoundedSeq(LineBodies, MaxLines), eol \in Eols, final \in BOOLEAN :
          /\ WellFormed(bodies, final)
          /\ InitChangelog(bodies, eol, final)
    /\ changelog_exists = TRUE
    /\ release_file = <<>>
    /\ release_exists = TRUE
    /\ InitProcs
    /\ InitHistory
    /\ \E v \in Labels :
          /\ argv = [p \in Procs |-> <<Program, v>>]
          /\ version = [p \in Procs |-> IF p = 1 THEN v ELSE <<>>]
    /\ change_log = NoText
    /\ pc = [p \in Procs |-> IF p = 1 THEN "get" ELSE "idle"]

NextExtract == get_change_log_for_version(1)

SpecExtract == InitExtract /\ [][NextExtract]_vars

(***************************************************************************)
(* insert_change_log                                                       *)
(***************************************************************************)
\* lines 26-27: the local, and open("../../release_description.txt", mode="r+")
OpenRelease(p) ==
    /\ pc[p] = "insert"
    /\ release_description' = [release_description EXCEPT ![p] = <<>>]
    /\ call_texts' = [call_texts EXCEPT ![p] = Append(@, change_log[p])]
    /\ IF release_exists
       THEN /\ release_pos' = [release_pos EXCEPT ![p] = 0]
            /\ pc' = [pc EXCEPT ![p] = "read"]
            /\ release_opened' = TRUE
            /\ run_start' = release_file
            /\ UNCHANGED raised
       ELSE /\ Raise(p, "FileNotFoundError in insert_change_log")
            /\ UNCHANGED <<release_pos, release_opened, run_start>>
    /\ UNCHANGED <<argv, version, change_log, finished_reading_change_log, change_log_pos>>
    /\ UNCHANGED <<filevars, raw_lines, lines, line_ends, orig_release, last_written,
                   last_write_alone>>

\* line 28: release_desc_file.read().replace("__CHANGELOG__", change_log)
ReadReplace(p) ==
    /\ pc[p] = "read"
    /\ release_description' = [release_description EXCEPT ![p] =
            Replace(Read(release_file, release_pos[p]), PLACEHOLDER, change_log[p])]
    /\ release_pos' = [release_pos EXCEPT ![p] = Len(release_file)]
    /\ pc' = [pc EXCEPT ![p] = "seek"]
    /\ UNCHANGED <<argv, version, change_log, finished_reading_change_log, change_log_pos,
                   raised, call_texts>>
    /\ UNCHANGED <<filevars, histvars>>

SeekStay(pos, offset) == pos

\* the position file.seek(offset) leaves the file at
SeekTo(pos, offset) == offset

\* line 29: release_desc_file.seek(0)
Seek(p) ==
    /\ pc[p] = "seek"
    /\ release_pos' = [release_pos EXCEPT ![p] = SeekTo(@, 0)]
    /\ pc' = [pc EXCEPT ![p] = "write"]
    /\ UNCHANGED <<argv, version, change_log, finished_reading_change_log, change_log_pos,
                   release_description, raised, call_texts>>
    /\ UNCHANGED <<filevars, histvars>>

\* line 30: release_desc_file.write(release_description); the step is the
\* moment the text reaches the file, which for a text still in the buffer is
\* the flush truncate() begins with, before it cuts the file
Write(p) ==
    /\ pc[p] = "write"
    /\ release_file' = WriteAt(release_file, release_pos[p], release_description[p])
    /\ release_pos' = [release_pos EXCEPT ![p] = @ + Len(release_description[p])]
    /\ pc' = [pc EXCEPT ![p] = "truncate"]
    /\ last_written' = release_description[p]
    /\ last_write_alone' = (pc[Other(p)] \in {"idle", "done"})
    /\ UNCHANGED <<argv, version, change_log, finished_reading_change_log, change_log_pos,
                   release_description, raised, call_texts>>
    /\ UNCHANGED <<changelog_file, changelog_exists, release_exists>>
    /\ UNCHANGED <<raw_lines, lines, line_ends, orig_release, run_start, release_opened>>

\* line 31: release_desc_file.truncate() cuts the file at the position of the
\* run's own handle, and the file is closed
Truncate(p) ==
    /\ pc[p] = "truncate"
    /\ release_file' = TruncateTo(release_file, release_pos[p])
    /\ pc' = [pc EXCEPT ![p] = "done"]
    /\ UNCHANGED <<argv, version, change_log, finished_reading_change_log, change_log_pos,
                   release_description, release_pos, raised, call_texts>>
    /\ UNCHANGED <<changelog_file, changelog_exists, release_exists>>
    /\ UNCHANGED histvars

insert_change_log(p) ==
    \/ OpenRelease(p)
    \/ ReadReplace(p)
    \/ Seek(p)
    \/ Write(p)
    \/ Truncate(p)

(***************************************************************************)
(* The substituter on its own: every document and replacement text within  *)
(* the bounds, and further calls on the document a call has left           *)
(***************************************************************************)
HEAD == <<"_", "_", "C", "H", "A", "N", "G", "E">>                  \* "__CHANGE"
TAIL == <<"L", "O", "G", "_", "_">>                                 \* "LOG__"
OVERLAP == <<"C", "H", "A", "N", "G", "E", "L", "O", "G", "_", "_">>  \* "CHANGELOG__"

Frags == {PLACEHOLDER, HEAD, TAIL, OVERLAP, <<"x">>, <<CR, LF>>}
Texts == {<<>>, <<"x">>, <<"x", LF>>, PLACEHOLDER}
Docs(n) == {Flatten(fs) : fs \in BoundedSeq(Frags, n)}

InitNoChangelog ==
    /\ changelog_file = <<>>
    /\ changelog_exists = TRUE
    /\ raw_lines = <<>>
    /\ lines = <<>>
    /\ line_ends = <<>>

InitInsert ==
    /\ InitNoChangelog
    /\ release_file \in Docs(MaxFrags)
    /\ release_exists = TRUE
    /\ InitProcs
    /\ InitHistory
    /\ argv = [p \in Procs |-> <<Program>>]
    /\ version = NoText
    /\ \E t \in Texts : change_log = [p \in Procs |-> IF p = 1 THEN t ELSE <<>>]
    /\ pc = [p \in Procs |-> IF p = 1 THEN "insert" ELSE "idle"]

\* line 25: insert_change_log is called again, on the document the last call left
CallAgain(p) ==
    /\ pc[p] = "done"
    /\ Len(call_texts[p]) < MaxCalls
    /\ \E t \in Texts : change_log' = [change_log EXCEPT ![p] = t]
    /\ pc' = [pc EXCEPT ![p] = "insert"]
    /\ UNCHANGED <<argv, version, finished_reading_change_log, change_log_pos,
                   release_description, release_pos, raised, call_texts>>
    /\ UNCHANGED <<filevars, histvars>>

NextInsert == insert_change_log(1) \/ CallAgain(1)

SpecInsert == InitInsert /\ [][NextInsert]_vars

(***************************************************************************)
(* Two runs of insert_change_log on the same release description           *)
(***************************************************************************)
RaceFrags == {PLACEHOLDER, <<"a">>}
RaceTexts == {<<>>, <<"x">>, <<"y", "y">>}

InitRace ==
    /\ InitNoChangelog
    /\ release_file \in {Flatten(fs) : fs \in BoundedSeq(RaceFrags, MaxRaceFrags)}
    /\ release_exists = TRUE
    /\ InitProcs
    /\ InitHistory
    /\ argv = [p \in Procs |-> <<Program>>]
    /\ version = NoText
    /\ change_log \in [Procs -> RaceTexts]
    /\ pc = [p \in Procs |-> "insert"]

NextRace == \E p \in Procs : insert_change_log(p)

SpecRace == InitRace /\ [][NextRace]_vars

(***************************************************************************)
(* __main__: one run of the whole program                                  *)
(***************************************************************************)
\* line 34: version = sys.argv[1]
Main(p) ==
    /\ pc[p] = "main"
    /\ IF Len(argv[p]) < 2
       THEN /\ Raise(p, "IndexError in __main__")
            /\ UNCHANGED version
       ELSE /\ version' = [version EXCEPT ![p] = argv[p][2]]
            /\ pc' = [pc EXCEPT ![p] = "get"]
            /\ UNCHANGED raised
    /\ UNCHANGED <<argv, change_log, finished_reading_change_log, change_log_pos,
                   release_description, release_pos, call_texts>>
    /\ UNCHANGED <<filevars, histvars>>

MainBodies == {V20, V10, PLAIN}

Init ==
    /\ \E bodies \in BoundedSeq(MainBodies, MaxMainLines), eol \in Eols :
          InitChangelog(bodies, eol, TRUE)
    /\ changelog_exists \in BOOLEAN
    /\ release_file \in {Flatten(fs) : fs \in BoundedSeq(RaceFrags, MaxRaceFrags)}
    /\ release_exists \in BOOLEAN
    /\ InitProcs
    /\ InitHistory
    /\ \E a \in {<<Program>>} \cup {<<Program, v>> : v \in Labels} :
          argv = [p \in Procs |-> IF p = 1 THEN a ELSE <<Program>>]
    /\ version = NoText
    /\ change_log = NoText
    /\ pc = [p \in Procs |-> IF p = 1 THEN "main" ELSE "idle"]

Next == Main(1) \/ get_change_log_for_version(1) \/ insert_change_log(1)

Spec == Init /\ [][Next]_vars

(***************************************************************************)
(* What the extractor is required to return, stated on the lines           *)
(***************************************************************************)
\* the label occurs in the line
Occurs(label, l) ==
    \E k \in 1..(Len(l) + 1) :
        \A m \in 1..Len(label) : k + m - 1 <= Len(l) /\ l[k + m - 1] = label[m]

\* the characters of t from position k on begin with "## Version"
HeadingAt(t, k) ==
    \A m \in 1..Len(HEADING) : k + m - 1 <= Len(t) /\ t[k + m - 1] = HEADING[m]

Least(S) == IF S = {} THEN 0 ELSE CHOOSE k \in S : \A m \in S : k <= m

\* i: the first line containing the label (0: none)
MatchLine(ls, label) == Least({i \in 1..Len(ls) : Occurs(label, ls[i])})
\* j: the first line after i that starts with "## Version" (0: none)
ClosingLine(ls, i) == Least({j \in (i + 1)..Len(ls) : HeadingAt(ls[j], 1)})
\* the last line of the block that starts after line i
BlockEnd(ls, i) == IF ClosingLine(ls, i) = 0 THEN Len(ls) ELSE ClosingLine(ls, i) - 1

Returned(p) == pc[p] = "insert"
Extracting(p) == pc[p] \in {"outer", "inner", "return", "insert"}

\* C1 as stated: when line i is the first line containing the label, the
\* returned block is exactly lines i+1 .. j-1 concatenated with the line
\* terminators they have in the file, j being the first later line that starts
\* with "## Version", or lines i+1 .. end of file when there is no j.
C1_BlockIsStoredLines ==
    \A p \in Procs :
        LET i == MatchLine(raw_lines, version[p])
        IN (Returned(p) /\ i # 0) =>
               change_log[p] = Flatten(SubSeq(raw_lines, i + 1, BlockEnd(raw_lines, i)))

\* C1 as amended: the returned block is exactly lines i+1 .. j-1 (or i+1 .. end
\* of file) concatenated in order, each with its line terminator delivered as "\n".
C1_BlockIsLinesBetween ==
    \A p \in Procs :
        LET i == MatchLine(lines, version[p])
        IN (Returned(p) /\ i # 0) =>
               change_log[p] = Flatten(SubSeq(lines, i + 1, BlockEnd(lines, i)))

\* a block of at least one line closed by a heading, after a match that is not
\* line 1, in a changelog whose lines do not end in "\n" alone
C1_Witness ==
    LET i == MatchLine(lines, version[1])
    IN /\ Returned(1)
       /\ i > 1
       /\ ClosingLine(lines, i) > i + 1
       /\ change_log[1] # <<>>
       /\ raw_lines # lines

\* C2: when no line contains the label the scan reaches end of file and returns
\* the empty block, and nothing is raised; the block is empty too when the
\* first line containing the label is the last line of the file.
C2_EmptyWhenAbsentOrLast ==
    \A p \in Procs :
        LET i == MatchLine(lines, version[p])
        IN /\ Extracting(p) => raised[p] = "none"
           /\ (Returned(p) /\ i = 0) =>
                 /\ change_log[p] = <<>>
                 /\ change_log_pos[p] = Len(changelog_file)
           /\ (Returned(p) /\ i # 0 /\ i = Len(lines)) => change_log[p] = <<>>

\* a changelog of several lines of which only the last contains the label
C2_Witness ==
    /\ Returned(1)
    /\ Len(lines) > 1
    /\ MatchLine(lines, version[1]) = Len(lines)
    /\ change_log[1] = <<>>

\* a changelog of several lines none of which contains the label
C2_WitnessAbsent ==
    /\ Returned(1)
    /\ Len(lines) > 1
    /\ MatchLine(lines, version[1]) = 0

\* C7: first match wins.  With i the first line containing the label, the scan
\* never reads past the first later heading (or the end of the file), the flag
\* is set exactly there and the scan reads nothing afterwards, and the result
\* is made of the lines after i up to there only: a line containing the label
\* inside the block is one of them, a line containing it after the closing
\* heading is not.
C7_FirstMatchWins ==
    \A p \in Procs :
        LET i == MatchLine(lines, version[p])
            j == ClosingLine(lines, i)
            stop == IF j = 0 THEN Len(changelog_file) ELSE line_ends[j]
        IN (Extracting(p) /\ i # 0) =>
              /\ change_log_pos[p] <= stop
              /\ finished_reading_change_log[p] =>
                    (change_log_pos[p] = stop /\ pc[p] # "inner")
              /\ Returned(p) =>
                    /\ finished_reading_change_log[p]
                    /\ \E n \in 0..Len(lines) :
                          /\ n = BlockEnd(lines, i) - i
                          /\ change_log[p] = Flatten([k \in 1..n |-> lines[i + k]])

\* the label is on line i, again inside the block, and again after the closing heading
C7_Witness ==
    LET i == MatchLine(lines, version[1])
        j == ClosingLine(lines, i)
    IN /\ Returned(1)
       /\ i # 0
       /\ j # 0
       /\ \E k \in (i + 1)..(j - 1) : Occurs(version[1], lines[k])
       /\ \E k \in (j + 1)..Len(lines) : Occurs(version[1], lines[k])

\* no line of the text t begins with "## Version"
NoHeadingLine(t) ==
    \A k \in 1..Len(t) : (k = 1 \/ t[k - 1] = LF) => ~HeadingAt(t, k)

\* C10: at every step of the scan change_log is the concatenation of whole
\* consecutive lines of the changelog none of which starts with "## Version",
\* so no line of it begins with "## Version".
C10_NoHeadingInBlock ==
    \A p \in Procs :
        /\ \E a \in 1..(Len(lines) + 1), b \in 0..Len(lines) :
              /\ change_log[p] = Flatten(SubSeq(lines, a, b))
              /\ \A k \in a..b : ~HeadingAt(lines[k], 1)
        /\ NoHeadingLine(change_log[p])

\* the scan is inside a block of two lines or more, headings before and after it
C10_Witness ==
    LET i == MatchLine(lines, version[1])
    IN /\ pc[1] = "inner"
       /\ i # 0
       /\ HeadingAt(lines[i], 1)
       /\ ClosingLine(lines, i) > i + 2
       /\ change_log[1] = Flatten(SubSeq(lines, i + 1, i + 2))

(***************************************************************************)
(* What the substituter is required to store, stated on the documents      *)
(***************************************************************************)
\* the characters of t from position k on begin with "__CHANGELOG__"
TokenAt(t, k) ==
    \A m \in 1..Len(PLACEHOLDER) : k + m - 1 <= Len(t) /\ t[k + m - 1] = PLACEHOLDER[m]

HasToken(t) == \E k \in 1..Len(t) : TokenAt(t, k)

\* doc with the leftmost occurrence of the token replaced by text, and then the
\* occurrences to the right of it, the characters between them kept
RECURSIVE Substituted(_, _)
Substituted(doc, text) ==
    LET k == Least({k \in 1..Len(doc) : TokenAt(doc, k)})
    IN IF k = 0 THEN doc
       ELSE SubSeq(doc, 1, k - 1) \o text
                \o Substituted(Drop(doc, k - 1 + Len(PLACEHOLDER)), text)

\* the text of a stored document: a "\r" before a "\n" dropped, any other "\r"
\* turned into "\n", every other character kept
TextOf(f) ==
    LET kept == SelectSeq([k \in 1..Len(f) |-> k],
                          LAMBDA k : ~(f[k] = CR /\ k < Len(f) /\ f[k + 1] = LF))
    IN [n \in 1..Len(kept) |-> IF f[kept[n]] = CR THEN LF ELSE f[kept[n]]]

HasCR(f) == \E k \in 1..Len(f) : f[k] = CR

Done(p) == pc[p] = "done"
LastText(p) == call_texts[p][Len(call_texts[p])]

\* C3 as stated: after insert_change_log the document is the document it found
\* with every occurrence of "__CHANGELOG__", left to right and not overlapping,
\* replaced by the replacement text, and every other character unchanged and in
\* place.
C3_EveryOccurrenceReplaced ==
    \A p \in Procs : Done(p) => release_file = Substituted(run_start, LastText(p))

\* C3 as amended: the same, except that every "\r\n" and every other "\r" of
\* the document found is stored as "\n".
C3_EveryOccurrenceReplacedInText ==
    \A p \in Procs :
        Done(p) => release_file = Substituted(TextOf(run_start), LastText(p))

\* a document with a carriage return and two tokens or more, and a text put in
\* their place that is not empty
C3_Witness ==
    /\ Done(1)
    /\ HasCR(run_start)
    /\ LastText(1) = <<"x", LF>>
    /\ \E a, b \in 1..Len(run_start) :
          a + Len(PLACEHOLDER) <= b /\ TokenAt(run_start, a) /\ TokenAt(run_start, b)

\* C4 as stated: a document without the token is the same after
\* insert_change_log as before.
C4_UnchangedWithoutToken ==
    \A p \in Procs : (Done(p) /\ ~HasToken(run_start)) => release_file = run_start

\* C4 as amended: a document without the token is, after insert_change_log, the
\* document before it with every "\r\n" and every other "\r" stored as "\n",
\* and so the same when it holds no "\r"; nothing is raised.
C4_UnchangedTextWithoutToken ==
    \A p \in Procs :
        /\ raised[p] = "none"
        /\ (Done(p) /\ ~HasToken(run_start)) =>
              /\ release_file = TextOf(run_start)
              /\ ~HasCR(run_start) => release_file = run_start

\* a document without the token and with a carriage return has been rewritten
C4_Witness ==
    /\ Done(1)
    /\ ~HasToken(run_start)
    /\ HasCR(run_start)
    /\ Len(run_start) > 2

\* a document without the token or a carriage return has been rewritten
C4_WitnessSame ==
    /\ Done(1)
    /\ ~HasToken(run_start)
    /\ ~HasCR(run_start)
    /\ Len(run_start) > 2

\* C5 as stated: when no replacement text used contains the token, no token is
\* left in the document after insert_change_log, and a second call leaves the
\* document as the first call left it.
C5_NoTokenLeft ==
    \A p \in Procs :
        (Done(p) /\ \A n \in 1..Len(call_texts[p]) : ~HasToken(call_texts[p][n])) =>
            /\ ~HasToken(release_file)
            /\ Len(call_texts[p]) >= 2 => release_file = run_start

\* a replacement text that cannot complete a token with the characters around it:
\* not empty, free of carriage returns and of the token, no part of the token,
\* ending in no beginning of the token and beginning with no end of it
Safe(t) ==
    /\ t # <<>>
    /\ \A k \in 1..Len(t) : t[k] # CR
    /\ ~HasToken(t)
    /\ \A a \in 1..Len(PLACEHOLDER), b \in 1..Len(PLACEHOLDER) :
          SubSeq(PLACEHOLDER, a, b) # t
    /\ \A n \in 1..Len(t) :
          /\ n <= Len(PLACEHOLDER) => SubSeq(t, Len(t) - n + 1, Len(t)) # SubSeq(PLACEHOLDER, 1, n)
          /\ n <= Len(PLACEHOLDER) =>
                SubSeq(t, 1, n) # SubSeq(PLACEHOLDER, Len(PLACEHOLDER) - n + 1, Len(PLACEHOLDER))

\* C5 as amended: when every replacement text used is such a text, no token is
\* left in the document after insert_change_log, and a second call leaves the
\* document as the first call left it.
C5_NoTokenLeftSafe ==
    \A p \in Procs :
        (Done(p) /\ \A n \in 1..Len(call_texts[p]) : Safe(call_texts[p][n])) =>
            /\ ~HasToken(release_file)
            /\ Len(call_texts[p]) >= 2 => release_file = run_start

\* two calls with such texts on a document whose tokens, taken out, would have
\* left a token behind
C5_Witness ==
    /\ Done(1)
    /\ Len(call_texts[1]) = 2
    /\ \A n \in 1..2 : Safe(call_texts[1][n])
    /\ HasToken(orig_release)
    /\ HasToken(Substituted(orig_release, <<>>))

\* C6: after an uninterrupted insert_change_log the stored document is exactly
\* the transformed content, of the same length, whatever the length of the
\* content it replaces.
C6_StoredIsTransformed ==
    \A p \in Procs :
        Done(p) =>
            /\ release_description[p] =
                  Replace(Read(run_start, 0), PLACEHOLDER, LastText(p))
            /\ release_file = release_description[p]
            /\ Len(release_file) = Len(release_description[p])

\* the empty text has replaced the tokens of a document, which is shorter now
C6_Witness ==
    /\ Done(1)
    /\ LastText(1) = <<>>
    /\ HasToken(run_start)
    /\ release_file # <<>>
    /\ Len(release_file) < Len(run_start)

(***************************************************************************)
(* Two runs on the same release description                                *)
(***************************************************************************)
\* C8 as stated: when both runs have ended, the document is the text of the
\* write that came last.
C8_LastWriterWins ==
    (\A p \in Procs : Done(p)) => release_file = last_written

\* C8 as amended: when both runs have ended and the other run had truncated
\* before the last write was made, the document is the text of that write.
C8_LastWriterWinsAlone ==
    ((\A p \in Procs : Done(p)) /\ last_write_alone) => release_file = last_written

\* both runs read the same document and wrote texts of different lengths, the
\* longer first, and the second run wrote after the first had ended
C8_Witness ==
    /\ \A p \in Procs : Done(p)
    /\ last_write_alone
    /\ \E p \in Procs :
          /\ release_description[p] = last_written
          /\ Len(release_description[Other(p)]) > Len(last_written)
          /\ release_description[p] = Replace(Read(orig_release, 0), PLACEHOLDER, change_log[p])
          /\ HasToken(orig_release)

(***************************************************************************)
(* The whole program                                                       *)
(***************************************************************************)
FailedExtracting(p) ==
    raised[p] \in {"IndexError in __main__",
                   "FileNotFoundError in get_change_log_for_version"}

\* C9: while the extractor has not returned, and in every run that fails before
\* or during extraction, the release description has not been opened and holds
\* what it held at the start; no step of any run changes the changelog file.
C9_ExtractBeforeInsert ==
    /\ [](\A p \in Procs :
            (pc[p] \in {"main", "get", "outer", "inner", "return"} \/ FailedExtracting(p)) =>
                (~release_opened /\ release_file = orig_release))
    /\ [][changelog_file' = changelog_file /\ changelog_exists' = changelog_exists]_vars

\* a run has ended on a missing changelog file, the release description in place
C9_Witness ==
    /\ raised[1] = "FileNotFoundError in get_change_log_for_version"
    /\ release_exists
    /\ HasToken(release_file)

====
